---------------------------- MODULE Spec2Model ----------------------------
(***************************************************************************)
(* A model of netsem's pure classifiers: classify_ip (src/src/ip.rs) and   *)
(* classify_port / validate_port / validate_port_or_zero                   *)
(* (src/src/port.rs), and of the bind probe check_bind_inner               *)
(* (src/src/port.rs).                                                      *)
(*                                                                         *)
(* An IPv4 address is [fam |-> "V4", o |-> <<o0,o1,o2,o3>>] (four octets), *)
(* an IPv6 address is [fam |-> "V6", s |-> <<s0,...,s7>>] (eight 16-bit    *)
(* segments).  A caller holds one argument and calls the function on it;   *)
(* every return value is appended to rets.  The bind probe is a sequence   *)
(* of steps, one for each call it makes to the operating system: pc is the *)
(* step it is at, socket_type its third parameter, socket the socket it    *)
(* holds (<<>> when none) and syscalls the calls it has made to the        *)
(* operating system since it was last called, with their outcomes.         *)
(***************************************************************************)
EXTENDS Integers, Sequences, FiniteSets

VARIABLES arg, rets, pc, socket_type, socket, syscalls

probe_vars == <<pc, socket_type, socket, syscalls>>

vars == <<arg, rets, pc, socket_type, socket, syscalls>>

\* No probe is running and none has run.
NoProbe ==
    /\ pc = "idle"
    /\ socket_type = "none"
    /\ socket = <<>>
    /\ syscalls = <<>>

(***************************************************************************)
(* Bounds of the model.                                                    *)
(***************************************************************************)
\* Octets and segments are drawn from the values within Margin of a value
\* at which some range of the classifier starts or ends.
Margin == 1

\* How many calls the caller makes on its argument.
MaxCalls == 2

(***************************************************************************)
(* Fixed-width arithmetic.                                                 *)
(***************************************************************************)
RECURSIVE BitAnd(_, _)
\* The & of two unsigned integers.
BitAnd(a, b) ==
    IF a = 0 \/ b = 0
    THEN 0
    ELSE (a % 2) * (b % 2) + 2 * BitAnd(a \div 2, b \div 2)

\* Ipv4Addr::octets / Ipv6Addr::segments
octets(ip) == ip.o
segments(ip) == ip.s

(***************************************************************************)
(* The predicates of std::net that classify_ip calls.                      *)
(***************************************************************************)
\* IpAddr::is_loopback: 127.0.0.0/8, or exactly ::1
is_loopback(ip) ==
    IF ip.fam = "V4"
    THEN octets(ip)[1] = 127
    ELSE segments(ip) = <<0, 0, 0, 0, 0, 0, 0, 1>>

\* IpAddr::is_unspecified: 0.0.0.0, or ::
is_unspecified(ip) ==
    IF ip.fam = "V4"
    THEN octets(ip) = <<0, 0, 0, 0>>
    ELSE segments(ip) = <<0, 0, 0, 0, 0, 0, 0, 0>>

\* IpAddr::is_multicast: 224.0.0.0/4, or ff00::/8
is_multicast(ip) ==
    IF ip.fam = "V4"
    THEN octets(ip)[1] >= 224 /\ octets(ip)[1] <= 239
    ELSE BitAnd(segments(ip)[1], 65280) = 65280

\* Ipv4Addr::is_broadcast: 255.255.255.255
is_broadcast(ipv4) == octets(ipv4) = <<255, 255, 255, 255>>

\* Ipv4Addr::is_link_local: 169.254.0.0/16
is_link_local(ipv4) == octets(ipv4)[1] = 169 /\ octets(ipv4)[2] = 254

\* Ipv4Addr::is_documentation: 192.0.2.0/24, 198.51.100.0/24, 203.0.113.0/24
is_documentation(ipv4) ==
    \/ octets(ipv4)[1] = 192 /\ octets(ipv4)[2] = 0 /\ octets(ipv4)[3] = 2
    \/ octets(ipv4)[1] = 198 /\ octets(ipv4)[2] = 51 /\ octets(ipv4)[3] = 100
    \/ octets(ipv4)[1] = 203 /\ octets(ipv4)[2] = 0 /\ octets(ipv4)[3] = 113

\* Ipv4Addr::is_private: 10.0.0.0/8, 172.16.0.0/12, 192.168.0.0/16
is_private(ipv4) ==
    \/ octets(ipv4)[1] = 10
    \/ octets(ipv4)[1] = 172 /\ octets(ipv4)[2] >= 16 /\ octets(ipv4)[2] <= 31
    \/ octets(ipv4)[1] = 192 /\ octets(ipv4)[2] = 168

(***************************************************************************)
(* classify_ip                                                             *)
(***************************************************************************)
\* enum IpClass
IpClass ==
    {"Loopback", "Private", "LinkLocal", "Global", "Multicast", "Unspecified",
     "Broadcast", "Documentation", "SharedAddress", "Benchmarking"}

\* Variant: the mask keeps three bits of the second octet (0xe0).
is_shared_address_mask(ipv4) ==
    octets(ipv4)[1] = 100 /\ BitAnd(octets(ipv4)[2], 224) = 64

\* octets[0] == 100 && (octets[1] & 0xc0) == 64
is_shared_address(ipv4) ==
    octets(ipv4)[1] = 100 /\ BitAnd(octets(ipv4)[2], 192) = 64

\* Variant: the mask keeps every bit of the second octet (0xff).
is_benchmarking_mask(ipv4) ==
    octets(ipv4)[1] = 198 /\ BitAnd(octets(ipv4)[2], 255) = 18

\* octets[0] == 198 && (octets[1] & 0xfe) == 18
is_benchmarking(ipv4) ==
    octets(ipv4)[1] = 198 /\ BitAnd(octets(ipv4)[2], 254) = 18

\* Variant: the RFC 1918 test is written by hand and stops one short of
\* 172.31.
classify_v4_private_short(ipv4) ==
    IF is_broadcast(ipv4) THEN "Broadcast"
    ELSE IF is_link_local(ipv4) THEN "LinkLocal"
    ELSE IF is_documentation(ipv4) THEN "Documentation"
    ELSE IF is_shared_address(ipv4) THEN "SharedAddress"
    ELSE IF is_benchmarking(ipv4) THEN "Benchmarking"
    ELSE IF \/ octets(ipv4)[1] = 10
            \/ octets(ipv4)[1] = 172 /\ octets(ipv4)[2] >= 16 /\ octets(ipv4)[2] < 31
            \/ octets(ipv4)[1] = 192 /\ octets(ipv4)[2] = 168
         THEN "Private"
    ELSE "Global"

\* The IpAddr::V4 arm of the match, and the fallback after it.
classify_v4(ipv4) ==
    IF is_broadcast(ipv4) THEN "Broadcast"
    ELSE IF is_link_local(ipv4) THEN "LinkLocal"
    ELSE IF is_documentation(ipv4) THEN "Documentation"
    ELSE IF is_shared_address(ipv4) THEN "SharedAddress"
    ELSE IF is_benchmarking(ipv4) THEN "Benchmarking"
    ELSE IF is_private(ipv4) THEN "Private"
    ELSE "Global"

\* Variant: the mask keeps nine bits of the first segment (0xff80).
is_v6_link_local_mask(ipv6) == BitAnd(segments(ipv6)[1], 65408) = 65152

\* (ipv6.segments()[0] & 0xffc0) == 0xfe80
is_v6_link_local(ipv6) == BitAnd(segments(ipv6)[1], 65472) = 65152

\* ipv6.segments()[0] == 0x2001 && ipv6.segments()[1] == 0x0db8
is_v6_documentation(ipv6) ==
    segments(ipv6)[1] = 8193 /\ segments(ipv6)[2] = 3512

\* Variant: the mask keeps eight bits of the first segment (0xff00).
is_v6_unique_local_mask(ipv6) == BitAnd(segments(ipv6)[1], 65280) = 64512

\* Variant: the mask keeps six bits of the first segment (0xfc00).
is_v6_unique_local_wide(ipv6) == BitAnd(segments(ipv6)[1], 64512) = 64512

\* (ipv6.segments()[0] & 0xfe00) == 0xfc00
is_v6_unique_local(ipv6) == BitAnd(segments(ipv6)[1], 65024) = 64512

\* Variant: the arm ends in unreachable!() instead of falling through to
\* IpClass::Global.
classify_v6_unreachable(ipv6) ==
    IF is_v6_link_local(ipv6) THEN "LinkLocal"
    ELSE IF is_v6_documentation(ipv6) THEN "Documentation"
    ELSE IF is_v6_unique_local(ipv6) THEN "Private"
    ELSE "Panic"

\* The IpAddr::V6 arm of the match, and the fallback after it.
classify_v6(ipv6) ==
    IF is_v6_link_local(ipv6) THEN "LinkLocal"
    ELSE IF is_v6_documentation(ipv6) THEN "Documentation"
    ELSE IF is_v6_unique_local(ipv6) THEN "Private"
    ELSE "Global"

V4(a, b, c, d) == [fam |-> "V4", o |-> <<a, b, c, d>>]
V6(a, b, c, d, e, f, g, h) == [fam |-> "V6", s |-> <<a, b, c, d, e, f, g, h>>]

MaxOctet == 2^8 - 1
MaxSegment == 2^16 - 1

\* ::ffff:a.b.c.d
IsMapped(ip) ==
    /\ ip.fam = "V6"
    /\ \A i \in 1..5 : ip.s[i] = 0
    /\ ip.s[6] = MaxSegment

\* Ipv4Addr::to_ipv6_mapped
Mapped(ipv4) ==
    V6(0, 0, 0, 0, 0, MaxSegment,
       ipv4.o[1] * 256 + ipv4.o[2], ipv4.o[3] * 256 + ipv4.o[4])

\* IpAddr::to_canonical: the IPv4 address of an IPv4-mapped address
to_canonical(ip) ==
    IF IsMapped(ip)
    THEN V4(ip.s[7] \div 256, ip.s[7] % 256, ip.s[8] \div 256, ip.s[8] % 256)
    ELSE ip

\* Variant: the address is made canonical before it is classified.
classify_ip_canonical(ip) ==
    LET c == to_canonical(ip) IN
    IF is_loopback(c) THEN "Loopback"
    ELSE IF is_unspecified(c) THEN "Unspecified"
    ELSE IF is_multicast(c) THEN "Multicast"
    ELSE IF c.fam = "V4" THEN classify_v4(c)
    ELSE classify_v6(c)

\* Variant: only the IPv4 loopback test is made.
classify_ip_v4_loopback(ip) ==
    IF ip.fam = "V4" /\ is_loopback(ip) THEN "Loopback"
    ELSE IF is_unspecified(ip) THEN "Unspecified"
    ELSE IF is_multicast(ip) THEN "Multicast"
    ELSE IF ip.fam = "V4" THEN classify_v4(ip)
    ELSE classify_v6(ip)

classify_ip(ip) ==
    IF is_loopback(ip) THEN "Loopback"
    ELSE IF is_unspecified(ip) THEN "Unspecified"
    ELSE IF is_multicast(ip) THEN "Multicast"
    ELSE IF ip.fam = "V4" THEN classify_v4(ip)
    ELSE classify_v6(ip)

(***************************************************************************)
(* The caller of classify_ip: it holds an address and classifies it up to  *)
(* MaxCalls times.                                                         *)
(***************************************************************************)
\* The values of 0..max within Margin of a value of edges.
Near(edges, max) ==
    {x \in UNION {(e - Margin)..(e + Margin) : e \in edges} : x >= 0 /\ x <= max}

Octet0 == Near({0, 10, 100, 127, 169, 172, 192, 198, 203, 224, 239, 255}, MaxOctet)
Octet1 == Near({0, 16, 18, 31, 51, 64, 127, 168, 254, 255}, MaxOctet)
Octet2 == Near({0, 2, 100, 113, 255}, MaxOctet)
Octet3 == {0, 1, 255}

Segment0 ==
    Near({0, 8193, 64512, 65024, 65152, 65215, 65280, MaxSegment}, MaxSegment)
Segment1 == Near({0, 3512, MaxSegment}, MaxSegment)
Low == {0, 1}

\* Ipv4Addr::new(a, b, c, d)
IsV4Arg ==
    \E a \in Octet0, b \in Octet1, c \in Octet2, d \in Octet3 :
        arg = V4(a, b, c, d)

\* Ipv6Addr::new(a, b, m, m, m, f, g, h)
IsV6Arg ==
    \E a \in Segment0, b \in Segment1, m \in Low, f \in {0, MaxSegment},
       g \in Low, h \in Low :
        arg = V6(a, b, m, m, m, f, g, h)

\* Ipv4Addr::new(a, b, c, d).to_ipv6_mapped()
IsMappedArg ==
    \E a \in Octet0, b \in Octet1, c \in {0, 255}, d \in Octet3 :
        arg = Mapped(V4(a, b, c, d))

Init ==
    /\ IsV4Arg \/ IsV6Arg \/ IsMappedArg
    /\ rets = <<>>
    /\ NoProbe

\* let class = classify_ip(ip);
ClassifyIp ==
    /\ Len(rets) < MaxCalls
    /\ rets' = Append(rets, classify_ip(arg))
    /\ UNCHANGED <<arg, probe_vars>>

Next == ClassifyIp

Spec == Init /\ [][Next]_vars

(***************************************************************************)
(* Ports.  The caller holds a u16 and calls the three port functions on    *)
(* it; rets holds [fn, val] of every call.                                 *)
(***************************************************************************)
\* enum PortClass
PortClass == {"System", "User", "Dynamic"}

\* Result<(), NetSemError>
Ok == [ok |-> TRUE]
InvalidPort(p) == [ok |-> FALSE, err |-> "InvalidPort", port |-> p]

\* Variant: the test for 0 is missing.
validate_port_any(p) == Ok

validate_port(p) == IF p = 0 THEN InvalidPort(0) ELSE Ok

validate_port_or_zero(p) == Ok

\* Variant: the first comparison is <=.
classify_port_inclusive(p) ==
    IF p <= 1024 THEN "System"
    ELSE IF p < 49152 THEN "User"
    ELSE "Dynamic"

classify_port(p) ==
    IF p < 1024 THEN "System"
    ELSE IF p < 49152 THEN "User"
    ELSE "Dynamic"

MaxPort == 2^16 - 1

InitPort ==
    /\ arg \in 0..MaxPort
    /\ rets = <<>>
    /\ NoProbe

Returns(fn, val) ==
    /\ Len(rets) < MaxCalls
    /\ rets' = Append(rets, [fn |-> fn, val |-> val])
    /\ UNCHANGED <<arg, probe_vars>>

ClassifyPort == Returns("classify_port", classify_port(arg))

ValidatePort == Returns("validate_port", validate_port(arg))

ValidatePortOrZero == Returns("validate_port_or_zero", validate_port_or_zero(arg))

NextPort == ClassifyPort \/ ValidatePort \/ ValidatePortOrZero

SpecPort == InitPort /\ [][NextPort]_vars

(***************************************************************************)
(* The bind probe: check_bind_tcp and check_bind_udp, both                 *)
(* check_bind_inner.  The caller holds [ip, port] and probes it up to      *)
(* MaxCalls times; the operating system may fail any call with any error.  *)
(***************************************************************************)
\* std::io::Error, by its errno
OsErrors == {"EACCES", "EADDRINUSE", "EMFILE"}

\* NetSemError::BindFailed { addr, source }
BindFailed(addr, source) ==
    [ok |-> FALSE, err |-> "BindFailed", addr |-> addr, source |-> source]

HexDigits ==
    <<"0", "1", "2", "3", "4", "5", "6", "7", "8", "9",
      "a", "b", "c", "d", "e", "f">>

RECURSIVE Numeral(_, _)
\* {} and {:x} of an unsigned integer
Numeral(n, base) ==
    IF n < base
    THEN HexDigits[n + 1]
    ELSE Numeral(n \div base, base) \o HexDigits[(n % base) + 1]

\* Display of Ipv4Addr
v4_to_string(o) ==
    Numeral(o[1], 10) \o "." \o Numeral(o[2], 10) \o "."
        \o Numeral(o[3], 10) \o "." \o Numeral(o[4], 10)

RECURSIVE HexGroups(_)
\* The segments in hexadecimal, with ':' between them.
HexGroups(segs) ==
    IF segs = <<>> THEN ""
    ELSE IF Len(segs) = 1 THEN Numeral(segs[1], 16)
    ELSE Numeral(segs[1], 16) \o ":" \o HexGroups(Tail(segs))

RECURSIVE ZeroRun(_, _)
\* How many segments from the i-th on are 0 in a row.
ZeroRun(segs, i) ==
    IF i > Len(segs) \/ segs[i] # 0 THEN 0 ELSE 1 + ZeroRun(segs, i + 1)

\* Display of Ipv6Addr: an IPv4-mapped address as ::ffff:a.b.c.d, any other
\* with its first longest run of two or more zero segments written '::'.
v6_to_string(segs) ==
    IF IsMapped([fam |-> "V6", s |-> segs])
    THEN "::ffff:" \o v4_to_string(<<segs[7] \div 256, segs[7] % 256,
                                     segs[8] \div 256, segs[8] % 256>>)
    ELSE LET start == CHOOSE i \in 1..8 :
                          \A j \in 1..8 :
                              \/ ZeroRun(segs, j) < ZeroRun(segs, i)
                              \/ ZeroRun(segs, j) = ZeroRun(segs, i) /\ i <= j
             len == ZeroRun(segs, start)
         IN IF len > 1
            THEN HexGroups(SubSeq(segs, 1, start - 1)) \o "::"
                     \o HexGroups(SubSeq(segs, start + len, 8))
            ELSE HexGroups(segs)

\* SocketAddr::new(ip, port).to_string()
addr_to_string(ip, port) ==
    IF ip.fam = "V4"
    THEN v4_to_string(ip.o) \o ":" \o Numeral(port, 10)
    ELSE "[" \o v6_to_string(ip.s) \o "]:" \o Numeral(port, 10)

\* let domain = match ip { V4 => Domain::IPV4, V6 => Domain::IPV6 }
Domain(ip) == IF ip.fam = "V4" THEN "IPV4" ELSE "IPV6"

ProbeIps ==
    { V4(127, 0, 0, 1), V4(0, 0, 0, 0), V4(192, 168, 1, 10),
      V6(0, 0, 0, 0, 0, 0, 0, 1), V6(0, 0, 0, 0, 0, 0, 0, 0),
      V6(65152, 0, 0, 0, 0, 0, 0, 1), V6(8193, 3512, 0, 0, 1, 0, 0, 1) }

ProbePorts == {0, 80, 8080, MaxPort}

InitBind ==
    /\ arg \in [ip : ProbeIps, port : ProbePorts]
    /\ rets = <<>>
    /\ NoProbe

\* A call of the operating system and its outcome, "ok" or an error.
Syscall(op, res) == [op |-> op, res |-> res]

\* check_bind_inner(ip, port, socket_type) is entered.
Enter(type) ==
    /\ pc = "idle"
    /\ Len(rets) < MaxCalls
    /\ pc' = "new"
    /\ socket_type' = type
    /\ syscalls' = <<>>
    /\ UNCHANGED <<arg, rets, socket>>

CheckBindTcp == Enter("STREAM")

CheckBindUdp == Enter("DGRAM")

\* check_bind_inner returns val to the caller of check_bind_tcp or
\* check_bind_udp.
ReturnFromProbe(val) ==
    /\ rets' = Append(rets,
                      [fn |-> IF socket_type = "STREAM" THEN "check_bind_tcp"
                              ELSE "check_bind_udp",
                       val |-> val])
    /\ pc' = "idle"
    /\ UNCHANGED <<arg, socket_type>>

\* Socket::new(domain, socket_type, None).map_err(..)?
SocketNew ==
    /\ pc = "new"
    /\ \/ /\ socket' = <<[domain |-> Domain(arg.ip), type |-> socket_type]>>
          /\ syscalls' = Append(syscalls, Syscall("socket", "ok"))
          /\ pc' = "reuse"
          /\ UNCHANGED <<arg, rets, socket_type>>
       \/ \E e \in OsErrors :
              /\ socket' = <<>>
              /\ syscalls' = Append(syscalls, Syscall("socket", e))
              /\ ReturnFromProbe(BindFailed(addr_to_string(arg.ip, arg.port), e))

\* Variant: the outcome of set_reuse_address is dropped (let _ = ..).
SetReuseAddressIgnored ==
    /\ pc = "reuse"
    /\ \E r \in {"ok"} \cup OsErrors :
           syscalls' = Append(syscalls, Syscall("setsockopt", r))
    /\ pc' = "bind"
    /\ UNCHANGED <<arg, rets, socket_type, socket>>

\* socket.set_reuse_address(true).map_err(..)?
SetReuseAddress ==
    /\ pc = "reuse"
    /\ \/ /\ syscalls' = Append(syscalls, Syscall("setsockopt", "ok"))
          /\ pc' = "bind"
          /\ UNCHANGED <<arg, rets, socket_type, socket>>
       \/ \E e \in OsErrors :
              /\ socket' = <<>>
              /\ syscalls' = Append(Append(syscalls, Syscall("setsockopt", e)),
                                    Syscall("close", "ok"))
              /\ ReturnFromProbe(BindFailed(addr_to_string(arg.ip, arg.port), e))

\* socket.bind(&addr.into()).map_err(..)?; Ok(())
Bind ==
    /\ pc = "bind"
    /\ socket' = <<>>
    /\ \/ /\ syscalls' = Append(Append(syscalls, Syscall("bind", "ok")),
                                Syscall("close", "ok"))
          /\ ReturnFromProbe(Ok)
       \/ \E e \in OsErrors :
              /\ syscalls' = Append(Append(syscalls, Syscall("bind", e)),
                                    Syscall("close", "ok"))
              /\ ReturnFromProbe(BindFailed(addr_to_string(arg.ip, arg.port), e))

NextBind ==
    CheckBindTcp \/ CheckBindUdp \/ SocketNew \/ SetReuseAddress \/ Bind

SpecBind == InitBind /\ [][NextBind]_vars

(***************************************************************************)
(* The ranges of the classifier, as prefixes.                              *)
(***************************************************************************)
Called == Len(rets) >= 1

\* The units (octets or segments) of an address and their width in bits.
Units(ip) == IF ip.fam = "V4" THEN ip.o ELSE ip.s
Width(ip) == IF ip.fam = "V4" THEN 8 ELSE 16

\* The first len bits of units are those of prefix; both are sequences of
\* w-bit units.
InPrefix(units, prefix, len, w) ==
    \A i \in 1..Len(units) :
        LET before == (i - 1) * w
            keep == IF len >= before + w THEN w
                    ELSE IF len <= before THEN 0
                    ELSE len - before
        IN units[i] \div 2^(w - keep) = prefix[i] \div 2^(w - keep)

Row(fam, prefix, len, cat) == [fam |-> fam, prefix |-> prefix, len |-> len, cat |-> cat]

\* The decision table: the ranges in the order in which they are decided.
DecisionTable ==
    << Row("V4", <<127, 0, 0, 0>>, 8, "Loopback"),
       Row("V6", <<0, 0, 0, 0, 0, 0, 0, 1>>, 128, "Loopback"),
       Row("V4", <<0, 0, 0, 0>>, 32, "Unspecified"),
       Row("V6", <<0, 0, 0, 0, 0, 0, 0, 0>>, 128, "Unspecified"),
       Row("V4", <<224, 0, 0, 0>>, 4, "Multicast"),
       Row("V6", <<65280, 0, 0, 0, 0, 0, 0, 0>>, 8, "Multicast"),
       Row("V4", <<255, 255, 255, 255>>, 32, "Broadcast"),
       Row("V4", <<169, 254, 0, 0>>, 16, "LinkLocal"),
       Row("V4", <<192, 0, 2, 0>>, 24, "Documentation"),
       Row("V4", <<198, 51, 100, 0>>, 24, "Documentation"),
       Row("V4", <<203, 0, 113, 0>>, 24, "Documentation"),
       Row("V4", <<100, 64, 0, 0>>, 10, "SharedAddress"),
       Row("V4", <<198, 18, 0, 0>>, 15, "Benchmarking"),
       Row("V4", <<10, 0, 0, 0>>, 8, "Private"),
       Row("V4", <<172, 16, 0, 0>>, 12, "Private"),
       Row("V4", <<192, 168, 0, 0>>, 16, "Private"),
       Row("V6", <<65152, 0, 0, 0, 0, 0, 0, 0>>, 10, "LinkLocal"),
       Row("V6", <<8193, 3512, 0, 0, 0, 0, 0, 0>>, 32, "Documentation"),
       Row("V6", <<64512, 0, 0, 0, 0, 0, 0, 0>>, 7, "Private") >>

Matches(ip, row) ==
    row.fam = ip.fam /\ InPrefix(Units(ip), row.prefix, row.len, Width(ip))

\* The category of the first row that matches, Global when none does.
FirstMatch(ip) ==
    LET hits == {i \in 1..Len(DecisionTable) : Matches(ip, DecisionTable[i])}
    IN IF hits = {}
       THEN "Global"
       ELSE DecisionTable[CHOOSE i \in hits : \A j \in hits : i <= j].cat

(***************************************************************************)
(* Properties of classify_ip, under Spec.                                  *)
(***************************************************************************)
\* C1: every value classify_ip returns is the category of the first row of
\* the decision table that the address matches, and Global when it matches
\* no row.
AgreesWithDecisionTable ==
    \A i \in 1..Len(rets) : rets[i] = FirstMatch(arg)

\* C1, its case: fd..:: matched the last row of the table, after sixteen
\* rows had not matched.
DecisionTableReached ==
    /\ Called
    /\ arg = V6(65023, 0, 0, 0, 0, 0, 0, 1)
    /\ rets[1] = "Private"

SharedAddressIffCgnat ==
    \A i \in 1..Len(rets) :
        arg.fam = "V4" =>
            /\ rets[i] = "SharedAddress" <=>
                   (arg.o[1] = 100 /\ arg.o[2] >= 64 /\ arg.o[2] <= 127)
            /\ arg.o[1] = 100 /\ (arg.o[2] < 64 \/ arg.o[2] > 127) =>
                   rets[i] \in {"Private", "Global"}

\* C5, its case: 100.127.255.255, the last address of the range, was
\* classified.
CgnatLastClassified ==
    /\ Called
    /\ arg = V4(100, 127, 255, 255)
    /\ rets[1] = "SharedAddress"

MappedIsGlobal ==
    \A i \in 1..Len(rets) : IsMapped(arg) => rets[i] = "Global"

\* C7, its case: ::ffff:127.0.0.1 was classified, and 127.0.0.1 is
\* Loopback.
MappedLoopbackClassified ==
    /\ Called
    /\ arg = Mapped(V4(127, 0, 0, 1))
    /\ rets[1] = "Global"
    /\ classify_ip(to_canonical(arg)) = "Loopback"

\* C8: an IPv6 address other than ::1, :: and ff00::/8 is LinkLocal when its
\* first segment is in 0xfe80..0xfebf, else Documentation when its first two
\* segments are 0x2001, 0x0db8, else Private when its first segment is in
\* 0xfc00..0xfdff, else Global.
V6BySegments ==
    \A i \in 1..Len(rets) :
        /\ arg.fam = "V6"
        /\ arg.s # <<0, 0, 0, 0, 0, 0, 0, 1>>
        /\ arg.s # <<0, 0, 0, 0, 0, 0, 0, 0>>
        /\ arg.s[1] < 65280
        => rets[i] =
               IF arg.s[1] >= 65152 /\ arg.s[1] <= 65215 THEN "LinkLocal"
               ELSE IF arg.s[1] = 8193 /\ arg.s[2] = 3512 THEN "Documentation"
               ELSE IF arg.s[1] >= 64512 /\ arg.s[1] <= 65023 THEN "Private"
               ELSE "Global"

\* C8, its case: fec0::1, just above fe80::/10, was classified.
SiteLocalClassified ==
    /\ Called
    /\ arg = V6(65216, 0, 0, 0, 0, 0, 0, 1)
    /\ rets[1] = "Global"

\* C9: an address is Loopback exactly when it is an IPv4 address whose first
\* octet is 127 or the IPv6 address ::1.
LoopbackIff ==
    \A i \in 1..Len(rets) :
        rets[i] = "Loopback" <=>
            \/ arg.fam = "V4" /\ arg.o[1] = 127
            \/ arg.fam = "V6" /\ arg.s = <<0, 0, 0, 0, 0, 0, 0, 1>>

\* C9, its case: ::1 was classified.
V6LoopbackClassified ==
    /\ Called
    /\ arg = V6(0, 0, 0, 0, 0, 0, 0, 1)
    /\ rets[1] = "Loopback"

\* The address is in 10.0.0.0/8, 172.16.0.0/12 or 192.168.0.0/16.
Rfc1918(ipv4) ==
    \/ InPrefix(ipv4.o, <<10, 0, 0, 0>>, 8, 8)
    \/ InPrefix(ipv4.o, <<172, 16, 0, 0>>, 12, 8)
    \/ InPrefix(ipv4.o, <<192, 168, 0, 0>>, 16, 8)

\* C10: an IPv4 address is Private exactly when it is in an RFC 1918 range;
\* no address of 100.64.0.0/10 or 198.18.0.0/15 is Private.
PrivateIffRfc1918 ==
    \A i \in 1..Len(rets) :
        arg.fam = "V4" =>
            /\ rets[i] = "Private" <=> Rfc1918(arg)
            /\ \/ InPrefix(arg.o, <<100, 64, 0, 0>>, 10, 8)
               \/ InPrefix(arg.o, <<198, 18, 0, 0>>, 15, 8)
               => rets[i] # "Private"

\* C10, its case: 172.31.255.255, the last address of 172.16.0.0/12, was
\* classified.
PrivateLastClassified ==
    /\ Called
    /\ arg = V4(172, 31, 255, 255)
    /\ rets[1] = "Private"

(***************************************************************************)
(* Properties of the port functions, under SpecPort.                       *)
(***************************************************************************)
\* C3: classify_port returns System exactly for 0..1023, User exactly for
\* 1024..49151 and Dynamic exactly for 49152..65535.
PortPartition ==
    \A i \in 1..Len(rets) :
        rets[i].fn = "classify_port" =>
            /\ rets[i].val \in PortClass
            /\ rets[i].val = "System" <=> (0 <= arg /\ arg <= 1023)
            /\ rets[i].val = "User" <=> (1024 <= arg /\ arg <= 49151)
            /\ rets[i].val = "Dynamic" <=> (49152 <= arg /\ arg <= 65535)

\* C3, its case: port 1024, the first User port, was classified.
FirstUserPortClassified ==
    /\ Called
    /\ arg = 1024
    /\ rets[1] = [fn |-> "classify_port", val |-> "User"]

\* C4: validate_port fails exactly for port 0, with InvalidPort(0), and
\* succeeds for 1..65535; validate_port_or_zero succeeds for every port.
PortValidation ==
    \A i \in 1..Len(rets) :
        /\ rets[i].fn = "validate_port" =>
               /\ rets[i].val = InvalidPort(0) <=> arg = 0
               /\ rets[i].val = Ok <=> (1 <= arg /\ arg <= 65535)
        /\ rets[i].fn = "validate_port_or_zero" => rets[i].val = Ok

\* C4, its case: port 0 was rejected by validate_port and accepted by
\* validate_port_or_zero.
ZeroValidatedBothWays ==
    /\ arg = 0
    /\ rets = << [fn |-> "validate_port", val |-> InvalidPort(0)],
                 [fn |-> "validate_port_or_zero", val |-> Ok] >>

(***************************************************************************)
(* Properties of the bind probe, under SpecBind.                           *)
(***************************************************************************)
\* The calls of the probe to the operating system, without the close of
\* its socket.
Steps == SelectSeq(syscalls, LAMBDA c : c.op # "close")

\* How many calls of syscalls are op and succeeded.
Succeeded(op) ==
    Cardinality({i \in 1..Len(syscalls) :
                     syscalls[i].op = op /\ syscalls[i].res = "ok"})

\* The text of the endpoints that are probed: a.b.c.d:port, [v6]:port.
IpText(ip) ==
    CASE ip = V4(127, 0, 0, 1) -> "127.0.0.1"
      [] ip = V4(0, 0, 0, 0) -> "0.0.0.0"
      [] ip = V4(192, 168, 1, 10) -> "192.168.1.10"
      [] ip = V6(0, 0, 0, 0, 0, 0, 0, 1) -> "[::1]"
      [] ip = V6(0, 0, 0, 0, 0, 0, 0, 0) -> "[::]"
      [] ip = V6(65152, 0, 0, 0, 0, 0, 0, 1) -> "[fe80::1]"
      [] ip = V6(8193, 3512, 0, 0, 1, 0, 0, 1) -> "[2001:db8::1:0:0:1]"

PortText(port) ==
    CASE port = 0 -> "0"
      [] port = 80 -> "80"
      [] port = 8080 -> "8080"
      [] port = 65535 -> "65535"

EndpointText == IpText(arg.ip) \o ":" \o PortText(arg.port)

\* C11: a probe creates a socket, enables address reuse and binds, in this
\* order and each at most once; no step follows a step that failed; the
\* probe returns Ok exactly when all three succeeded and otherwise
\* BindFailed with the text of the endpoint and the error of the step that
\* failed; after it has returned it holds no socket, and every socket it
\* created has been closed.
BindProbeProtocol ==
    /\ \E n \in 0..3 :
           [i \in 1..Len(Steps) |-> Steps[i].op]
               = SubSeq(<<"socket", "setsockopt", "bind">>, 1, n)
    /\ \A i \in 1..Len(Steps) : Steps[i].res # "ok" => i = Len(Steps)
    /\ Len(socket) = Succeeded("socket") - Succeeded("close")
    /\ Len(socket) <= 1
    /\ pc = "idle" => socket = <<>>
    /\ pc = "idle" /\ rets # <<>> =>
           LET ret == rets[Len(rets)]
               last == Steps[Len(Steps)]
           IN /\ Steps # <<>>
              /\ ret.fn \in {"check_bind_tcp", "check_bind_udp"}
              /\ ret.val = Ok <=> (Len(Steps) = 3 /\ last.res = "ok")
              /\ ret.val # Ok =>
                     /\ last.res \in OsErrors
                     /\ ret.val = BindFailed(EndpointText, last.res)

\* C11, its case: binding [fe80::1]:8080 failed after the first two steps
\* had succeeded, and the probe has returned.
BindFailedReturned ==
    /\ pc = "idle"
    /\ arg = [ip |-> V6(65152, 0, 0, 0, 0, 0, 0, 1), port |-> 8080]
    /\ rets = << [fn |-> "check_bind_tcp",
                  val |-> BindFailed("[fe80::1]:8080", "EADDRINUSE")] >>
    /\ syscalls = << Syscall("socket", "ok"), Syscall("setsockopt", "ok"),
                     Syscall("bind", "EADDRINUSE"), Syscall("close", "ok") >>
    /\ socket = <<>>

(***************************************************************************)
(* The tests of classify_ip are disjoint, under Spec.                      *)
(***************************************************************************)
Rule(holds, cat) == [holds |-> holds, cat |-> cat]

\* The tests classify_ip makes on an address of the family of ip, in its
\* order, each with the category it returns.
Rules(ip) ==
    << Rule(is_loopback(ip), "Loopback"),
       Rule(is_unspecified(ip), "Unspecified"),
       Rule(is_multicast(ip), "Multicast") >>
    \o IF ip.fam = "V4"
       THEN << Rule(is_broadcast(ip), "Broadcast"),
               Rule(is_link_local(ip), "LinkLocal"),
               Rule(is_documentation(ip), "Documentation"),
               Rule(is_shared_address(ip), "SharedAddress"),
               Rule(is_benchmarking(ip), "Benchmarking"),
               Rule(is_private(ip), "Private") >>
       ELSE << Rule(is_v6_link_local(ip), "LinkLocal"),
               Rule(is_v6_documentation(ip), "Documentation"),
               Rule(is_v6_unique_local(ip), "Private") >>

\* The categories of the tests that hold of ip, in the order of the tests.
Holding(ip) ==
    LET held == SelectSeq(Rules(ip), LAMBDA r : r.holds)
    IN [k \in 1..Len(held) |-> held[k].cat]

\* C12: at most one test of classify_ip holds of an address, so that the
\* category returned is that of every test that holds, whichever is made
\* first, and Global when none holds.
TestsDisjoint ==
    LET cats == Holding(arg)
    IN /\ Len(cats) <= 1
       /\ \A i \in 1..Len(rets) :
              /\ \A k \in 1..Len(cats) : cats[k] = rets[i]
              /\ cats = <<>> => rets[i] = "Global"

\* C12, its case: 198.51.100.1, of the same /8 as the benchmarking range,
\* was classified, and only the documentation test holds of it.
OneTestHolds ==
    /\ Called
    /\ arg = V4(198, 51, 100, 1)
    /\ Holding(arg) = <<"Documentation">>
    /\ rets[1] = "Documentation"

=============================================================================
